---------------------------- MODULE Spec2Model ----------------------------
(***************************************************************************)
(* The order service of services/order/main.py: POST /orders               *)
(* (create_order), GET /orders/{order_id} (get_order), GET /healthz        *)
(* (healthz) and the per-request session of get_db, run by concurrent      *)
(* request handlers against one orders table and one product catalog.      *)
(*                                                                         *)
(* Numbers.  TLC's integers are 32 bits wide; a total of the               *)
(* Numeric(10,2) column has up to ten digits and a binary64 significand    *)
(* 53 bits, so naturals that may exceed 2^31 are kept as little-endian     *)
(* sequences of limbs in base 2^15 (the B... operators).  A Python float   *)
(* is a record [s, m, e] of value (-1)^s * m * 2^e with m a 53-bit         *)
(* significand (or zero), and float arithmetic rounds to nearest, ties to  *)
(* even, as IEEE 754 binary64 does.                                        *)
(***************************************************************************)
EXTENDS Integers, Sequences, FiniteSets, Bags, TLC

(***************************************************************************)
(* Naturals of arbitrary size                                              *)
(***************************************************************************)
Base == 2^15

RECURSIVE BNat(_)
BNat(n) == IF n = 0 THEN << >> ELSE << n % Base >> \o BNat(n \div Base)

RECURSIVE BTrim(_)
BTrim(a) ==
    IF a = << >> THEN a
    ELSE IF a[Len(a)] = 0 THEN BTrim(SubSeq(a, 1, Len(a) - 1)) ELSE a

\* a * k + c for 0 <= k, c < Base
RECURSIVE BMulAdd(_, _, _)
BMulAdd(a, k, c) ==
    IF a = << >> THEN BNat(c)
    ELSE LET t == a[1] * k + c
         IN  << t % Base >> \o BMulAdd(Tail(a), k, t \div Base)

BMulS(a, k) == BTrim(BMulAdd(a, k, 0))
BAddS(a, c) == BTrim(BMulAdd(a, 1, c))

\* << a \div d, a % d >> for 0 < d <= Base, most significant limb first
RECURSIVE BDivRem(_, _, _, _)
BDivRem(a, d, i, rem) ==
    IF i = 0 THEN << << >>, rem >>
    ELSE LET t    == rem * Base + a[i]
             rest == BDivRem(a, d, i - 1, t % d)
         IN  << rest[1] \o << t \div d >>, rest[2] >>

BDivS(a, d) ==
    LET r == BDivRem(a, d, Len(a), 0) IN << BTrim(r[1]), r[2] >>

RECURSIVE NatBits(_)
NatBits(n) == IF n = 0 THEN 0 ELSE 1 + NatBits(n \div 2)

BBitLen(a) == IF a = << >> THEN 0 ELSE 15 * (Len(a) - 1) + NatBits(a[Len(a)])

\* bit i (from 0) of a
BBit(a, i) ==
    LET w == (i \div 15) + 1
    IN  IF w > Len(a) THEN 0 ELSE (a[w] \div 2^(i % 15)) % 2

\* whether a % 2^n = 0
BLowZero(a, n) ==
    /\ \A w \in 1..(n \div 15) : w > Len(a) \/ a[w] = 0
    /\ \/ n % 15 = 0
       \/ (n \div 15) + 1 > Len(a)
       \/ a[(n \div 15) + 1] % 2^(n % 15) = 0

\* a * 2^n
BShl(a, n) ==
    IF a = << >> THEN a
    ELSE [i \in 1..(n \div 15) |-> 0] \o BMulS(a, 2^(n % 15))

\* a \div 2^n
BShr(a, n) ==
    LET w == n \div 15
    IN  IF w >= Len(a) THEN << >>
        ELSE BDivS(SubSeq(a, w + 1, Len(a)), 2^(n % 15))[1]

\* a < b
RECURSIVE BLessAt(_, _, _)
BLessAt(a, b, i) ==
    IF i = 0 THEN FALSE
    ELSE IF a[i] # b[i] THEN a[i] < b[i] ELSE BLessAt(a, b, i - 1)

BLess(a, b) ==
    IF Len(a) # Len(b) THEN Len(a) < Len(b) ELSE BLessAt(a, b, Len(a))

\* 10^n
RECURSIVE BPow10(_)
BPow10(n) == IF n = 0 THEN BNat(1) ELSE BMulS(BPow10(n - 1), 10)

(***************************************************************************)
(* Python floats (IEEE 754 binary64, round to nearest, ties to even)       *)
(***************************************************************************)
MantBits == 53

FZero == [s |-> 0, m |-> << >>, e |-> 0]

\* a / 2^n rounded to the nearest natural, ties to even
RoundShift(a, n) ==
    IF n = 0 THEN a
    ELSE LET q  == BShr(a, n)
             up == /\ BBit(a, n - 1) = 1
                   /\ (~BLowZero(a, n - 1) \/ BBit(q, 0) = 1)
         IN  IF up THEN BAddS(q, 1) ELSE q

\* the float nearest to (-1)^s * sig * 2^e
Normalize(s, sig, e) ==
    LET L == BBitLen(sig)
    IN  IF L = 0 THEN FZero
        ELSE IF L <= MantBits
             THEN [s |-> s, m |-> BShl(sig, MantBits - L), e |-> e - (MantBits - L)]
             ELSE LET n == L - MantBits
                      m == RoundShift(sig, n)
                  IN  IF BBitLen(m) > MantBits
                      THEN [s |-> s, m |-> BShr(m, 1), e |-> e + n + 1]
                      ELSE [s |-> s, m |-> m, e |-> e + n]

\* float(x) of the decimal x = (-1)^s * n / 10^d: the quotient is taken with
\* three bits more than the significand holds and a sticky bit for the
\* remainder, then rounded once
ParseFloat(s, n, d) ==
    IF n = << >> THEN FZero
    ELSE LET den == 10^d
             k   == MantBits + 3 + NatBits(den) - BBitLen(n)
             qr  == BDivS(BShl(n, k), den)
             sig == BMulAdd(qr[1], 2, IF qr[2] = 0 THEN 0 ELSE 1)
         IN  Normalize(s, BTrim(sig), 0 - k - 1)

\* x * q for a float x and an int q: q converts to float exactly, and the
\* product is the exact product rounded once
FloatMulInt(x, q) ==
    IF q = 0 \/ x.m = << >> THEN FZero
    ELSE LET a == IF q < 0 THEN 0 - q ELSE q
         IN  Normalize(IF q < 0 THEN 1 - x.s ELSE x.s, BMulS(x.m, a), x.e)

(***************************************************************************)
(* Numeric(10,2): the total column                                         *)
(***************************************************************************)
NumericPrecision == 10
NumericScale == 2

NZero == [s |-> 0, c |-> << >>]

\* The value the column takes for a float x: the driver writes x into the
\* INSERT as the literal repr(x), the shortest decimal that reads back as
\* x, and the column rounds the literal to NumericScale decimals, half away
\* from zero.  c0 is |x| in hundredths, rounded down.  When the half-way
\* decimal c0 + 1/2 reads back as x it is repr(x) (no shorter decimal reads
\* back as the same float), so the literal rounds up; otherwise repr(x)
\* lies on the same side of the half-way point as x.
NumericOfFloat(x) ==
    IF x.m = << >> THEN NZero
    ELSE LET a    == BMulS(x.m, 10^NumericScale)
             c0   == IF x.e >= 0 THEN BShl(a, x.e) ELSE BShr(a, 0 - x.e)
             half == x.e < 0 /\ BBit(a, 0 - x.e - 1) = 1
             tie  == ParseFloat(x.s, BAddS(BMulS(c0, 10), 5), NumericScale + 1) = x
             c    == IF half \/ tie THEN BAddS(c0, 1) ELSE c0
         IN  IF c = << >> THEN NZero ELSE [s |-> x.s, c |-> c]

\* "numeric field overflow": the rounded value needs more than
\* NumericPrecision digits
NumericOverflow(t) == ~BLess(t.c, BPow10(NumericPrecision))

(***************************************************************************)
(* Bounds and inputs                                                       *)
(***************************************************************************)
MaxInFlight == 2
MaxOrders == 2

UserIds == {1}

\* The product catalog (external): a price in whole units and thousandths,
\* and a stock.  Product 99 is not in the catalog.
InitialCatalog ==
    [pid \in {42, 7, 8} |->
        CASE pid = 42 -> [price |-> [units |-> 9, mills |-> 990], stock |-> 3]
          [] pid = 7  -> [price |-> [units |-> 1, mills |-> 5], stock |-> 5]
          [] pid = 8  -> [price |-> [units |-> 60000000, mills |-> 0], stock |-> 3]]

\* The (product_id, quantity) of the POST /orders requests: of product 42 as
\* many as are in stock, more than are in stock, none and a negative
\* number; of product 7 a quantity whose total falls on half a cent; of
\* product 8 quantities whose total has more than ten digits; and a
\* product the catalog does not have.
CreateInputs ==
    { << 42, 3 >>, << 42, 5 >>, << 42, 0 >>, << 42, -2 >>,
      << 7, 3 >>, << 8, 3 >>, << 8, -2 >>, << 99, 3 >> }

\* the order_id of the GET /orders/{order_id} requests: every id the
\* sequence gives out, and one it does not
OrderIds == 1..(MaxOrders + 1)

VARIABLES
    catalog,    \* product-catalog service: product id -> [price, stock]
    orders,     \* the orders table: committed rows
    txRows,     \* the orders table: rows inserted by transactions still open
    nextId,     \* next value of the orders.id sequence
    now,        \* the clock datetime.utcnow reads
    pool,       \* sessions opened by get_db and not closed
    inflight,   \* the requests being handled, a bag of handler records:
                \*   pc        the handler's position
                \*   req       the request
                \*   upstream  how the httpx.get of create_order ended (r)
                \*   db_order  the Order object of create_order ({} for None)
                \*   sess      the Session get_db yielded
                \*   resp      the response
    created     \* history: the orders create_order has returned

vars == << catalog, orders, txRows, nextId, now, pool, inflight, created >>

NoUpstream == [kind |-> "none"]
NoResp == [code |-> 0, detail |-> "", body |-> {}]
NoSession == [state |-> "none", new |-> {}, uncommitted |-> {}]
OpenSession == [state |-> "open", new |-> {}, uncommitted |-> {}]
ClosedSession == [state |-> "closed", new |-> {}, uncommitted |-> {}]

HttpError(code, detail) == [code |-> code, detail |-> detail, body |-> {}]
HttpOk(body) == [code |-> 200, detail |-> "", body |-> {body}]
\* an exception no handler catches: the framework answers 500
ServerError == HttpError(500, "Internal Server Error")

Handlers == BagToSet(inflight)
One(h) == SetToBag({h})
\* handler h takes a step and becomes g
Becomes(h, g) == inflight' = (inflight (-) One(h)) (+) One(g)
\* a request arrives and handler h starts; at most MaxInFlight run at once
Arrives(h) ==
    /\ BagCardinality(inflight) < MaxInFlight
    /\ inflight' = inflight (+) One(h)
\* the request of handler h ends
Leaves(h) == inflight' = inflight (-) One(h)

Init ==
    /\ catalog = InitialCatalog
    /\ orders = {}
    /\ txRows = {}
    /\ nextId = 1
    /\ now = 1
    /\ pool = 0
    /\ inflight = EmptyBag
    /\ created = {}

(***************************************************************************)
(* create_order                                                            *)
(***************************************************************************)
\* What the GET of /products/{pid} can end in: the catalog's answer (200
\* with the product, 404 without), a 204 or a 500 whatever the product, or
\* an exception of the HTTP client (a timeout, a connection error).
CatalogOutcomes(pid) ==
    { IF pid \in DOMAIN catalog
      THEN [kind |-> "response", status |-> 200, body |-> {catalog[pid]}]
      ELSE [kind |-> "response", status |-> 404, body |-> {}] }
    \cup { [kind |-> "response", status |-> st, body |-> {}] : st \in {204, 500} }
    \cup { [kind |-> k] : k \in {"timeout", "neterr"} }

\* Mutants of StatusRejected: only a 404 is taken for a missing product;
\* only the 4xx statuses are.
StatusRejectedNotFoundOnly(status) == status = 404
StatusRejectedClientError(status) == status >= 400 /\ status < 500

\* r.status_code != 200
StatusRejected(status) == status # 200

PriceMills(price) == BAddS(BMulS(BNat(price.units), 1000), price.mills)

\* Mutant of Total: int(product["price"]) in place of float(...)
TotalOfWholePrice(product, quantity) ==
    FloatMulInt(ParseFloat(0, BMulS(BNat(product.price.units), 1000), 3), quantity)

\* float(product["price"]) * order.quantity
Total(product, quantity) ==
    FloatMulInt(ParseFloat(0, PriceMills(product.price), 3), quantity)

\* Mutants of StockShort: the operands swapped; a lower bound on quantity
StockShortSwapped(product, quantity) == quantity < product.stock
StockShortOrNonPositive(product, quantity) ==
    product.stock < quantity \/ quantity <= 0

\* product["stock"] < order.quantity
StockShort(product, quantity) == product.stock < quantity

\* Order(user_id=..., product_id=..., quantity=..., total=total): id, status
\* and created_at are unset (0, "None", 0) until the INSERT
NewOrder(order, total) ==
    [id |-> 0, user_id |-> order.user_id, product_id |-> order.product_id,
     quantity |-> order.quantity, total |-> total, status |-> "None",
     created_at |-> 0]

Creating == BagCardinality([h \in {g \in Handlers : g.req.op = "create"} |-> inflight[h]])

\* POST /orders arrives: get_db opens the request's session.  The first
\* conjunct bounds the model: no more than MaxOrders ids are given out.
StartCreate(u, p, q) ==
    /\ nextId + Creating <= MaxOrders
    /\ Arrives([pc |-> "fetch",
                req |-> [op |-> "create", user_id |-> u, product_id |-> p, quantity |-> q],
                upstream |-> NoUpstream, db_order |-> {}, sess |-> OpenSession,
                resp |-> NoResp])
    /\ pool' = pool + 1
    /\ UNCHANGED << catalog, orders, txRows, nextId, now, created >>

\* create_order from the catalog call on, given how the call ended (r): the
\* status check, the total, the stock check and db.add
Validate(h, r) ==
    IF r.kind # "response"
    THEN [h EXCEPT !.upstream = r, !.resp = ServerError, !.pc = "release"]
    ELSE IF StatusRejected(r.status)
    THEN [h EXCEPT !.upstream = r, !.pc = "release",
                   !.resp = HttpError(400, "product not found")]
    ELSE IF r.body = {}
    THEN \* r.json() raises on a body that is no JSON document
         [h EXCEPT !.upstream = r, !.resp = ServerError, !.pc = "release"]
    ELSE LET product == CHOOSE b \in r.body : TRUE
             total   == Total(product, h.req.quantity)
         IN  IF StockShort(product, h.req.quantity)
             THEN [h EXCEPT !.upstream = r, !.pc = "release",
                            !.resp = HttpError(400, "insufficient stock")]
             ELSE [h EXCEPT !.upstream = r, !.pc = "flush",
                            !.db_order = {NewOrder(h.req, total)},
                            !.sess.new = {NewOrder(h.req, total)}]

\* Mutant of CatalogAfter: the quantity is reserved at the stock check
CatalogReserved(pid, quantity) ==
    IF pid \in DOMAIN catalog
    THEN [catalog EXCEPT ![pid].stock = @ - quantity]
    ELSE catalog

\* what create_order leaves of the catalog: it only reads it
CatalogAfter(pid, quantity) == catalog

\* create_order up to db.add: one outcome of the catalog call, then Validate
Fetch(h) ==
    /\ h.pc = "fetch"
    /\ \E r \in CatalogOutcomes(h.req.product_id) : Becomes(h, Validate(h, r))
    /\ catalog' = CatalogAfter(h.req.product_id, h.req.quantity)
    /\ UNCHANGED << orders, txRows, nextId, now, pool, created >>

\* Mutant of InsertedRow: the id is counted from the committed rows
InsertedRowCountingId(o) ==
    [o EXCEPT !.id = Cardinality(orders) + 1, !.total = NumericOfFloat(o.total),
              !.status = "PENDING", !.created_at = now]

\* the row the INSERT writes for a new Order: the sequence gives the id, the
\* column defaults give status and created_at, the column type the total
InsertedRow(o) ==
    [o EXCEPT !.id = nextId, !.total = NumericOfFloat(o.total),
              !.status = "PENDING", !.created_at = now]

\* db.commit(), first half: the flush sends the INSERT.  A total the column
\* cannot hold fails the statement; the exception leaves create_order and
\* the session rolls the transaction back.  Each INSERT reads the clock
\* later than the one before.
Flush(h) ==
    /\ h.pc = "flush"
    /\ LET o   == CHOOSE x \in h.sess.new : TRUE
           row == InsertedRow(o)
       IN  IF NumericOverflow(row.total)
           THEN /\ Becomes(h, [h EXCEPT !.sess.new = {}, !.resp = ServerError,
                                        !.pc = "release"])
                /\ UNCHANGED << txRows, nextId, now >>
           ELSE /\ Becomes(h, [h EXCEPT !.sess.new = {}, !.sess.uncommitted = {row},
                                        !.db_order = {[o EXCEPT !.id = row.id,
                                                                !.status = row.status,
                                                                !.created_at = row.created_at]},
                                        !.pc = "commit"])
                /\ txRows' = txRows \cup {row}
                /\ nextId' = nextId + 1
                /\ now' = now + 1
    /\ UNCHANGED << catalog, orders, pool, created >>

\* db.commit(), second half: COMMIT makes the row visible to every session
Commit(h) ==
    /\ h.pc = "commit"
    /\ orders' = orders \cup h.sess.uncommitted
    /\ txRows' = txRows \ h.sess.uncommitted
    /\ Becomes(h, [h EXCEPT !.sess.uncommitted = {}, !.pc = "refresh"])
    /\ UNCHANGED << catalog, nextId, now, pool, created >>

\* Mutant of Refreshed: no db.refresh, the object keeps the float total
NotRefreshed(o) == o

\* db.refresh(db_order): the object's attributes are read again from its row
Refreshed(o) == CHOOSE row \in orders : row.id = o.id

\* db.refresh(db_order); return db_order
Refresh(h) ==
    /\ h.pc = "refresh"
    /\ LET o == Refreshed(CHOOSE x \in h.db_order : TRUE)
       IN  /\ Becomes(h, [h EXCEPT !.db_order = {o}, !.resp = HttpOk(o),
                                   !.pc = "release"])
           /\ created' = created \cup {o}
    /\ UNCHANGED << catalog, orders, txRows, nextId, now, pool >>

(***************************************************************************)
(* get_order, healthz, get_db                                              *)
(***************************************************************************)
\* GET /orders/{order_id} arrives: get_db opens the request's session.
\* known is history: the order of that id create_order has returned so far.
StartGet(id) ==
    /\ Arrives([pc |-> "query",
                req |-> [op |-> "get", order_id |-> id,
                         known |-> {o \in created : o.id = id}],
                upstream |-> NoUpstream, db_order |-> {}, sess |-> OpenSession,
                resp |-> NoResp])
    /\ pool' = pool + 1
    /\ UNCHANGED << catalog, orders, txRows, nextId, now, created >>

\* Mutant of Lookup: the filter compares the wrong column
LookupByUserId(order_id) == {o \in orders : o.user_id = order_id}

\* db.query(Order).filter(Order.id == order_id).first(), as a set
Lookup(order_id) == {o \in orders : o.id = order_id}

\* the response of get_order for what the query found
GetResponse(found) ==
    IF found = {} THEN HttpError(404, "not found")
    ELSE HttpOk(CHOOSE o \in found : TRUE)

\* get_order
Query(h) ==
    /\ h.pc = "query"
    /\ Becomes(h, [h EXCEPT !.resp = GetResponse(Lookup(h.req.order_id)),
                            !.pc = "release"])
    /\ UNCHANGED << catalog, orders, txRows, nextId, now, pool, created >>

\* db.close(): a transaction still open is rolled back, the connection
\* goes back to the pool
Close(session) == ClosedSession

\* Mutant of Released: db.close() after the yield without try/finally, so
\* that an exception of the handler skips it
ReleasedOnReturn(session, response) ==
    IF response.code = 200 THEN ClosedSession ELSE session

\* the session after get_db's generator is resumed with the handler's outcome:
\* the finally clause closes it on a return and on an exception alike
Released(session, response) == Close(session)

\* The request ends: get_db's finally clause runs and the response goes out
Release(h) ==
    /\ h.pc = "release"
    /\ Leaves(h)
    /\ LET s == Released(h.sess, h.resp)
       IN  /\ pool' = IF s.state = "closed" THEN pool - 1 ELSE pool
           /\ txRows' = IF s.state = "closed" THEN txRows \ h.sess.uncommitted ELSE txRows
    /\ UNCHANGED << catalog, orders, nextId, now, created >>

\* GET /healthz: no session, no lookup
Healthz ==
    /\ Arrives([pc |-> "reply", req |-> [op |-> "healthz"],
                upstream |-> NoUpstream, db_order |-> {}, sess |-> NoSession,
                resp |-> HttpError(200, "ok")])
    /\ UNCHANGED << catalog, orders, txRows, nextId, now, pool, created >>

\* the answer of healthz goes out
Reply(h) ==
    /\ h.pc = "reply"
    /\ Leaves(h)
    /\ UNCHANGED << catalog, orders, txRows, nextId, now, pool, created >>

Next ==
    \/ \E u \in UserIds, pq \in CreateInputs : StartCreate(u, pq[1], pq[2])
    \/ \E id \in OrderIds : StartGet(id)
    \/ Healthz
    \/ \E h \in Handlers : Fetch(h)
    \/ \E h \in Handlers : Flush(h)
    \/ \E h \in Handlers : Commit(h)
    \/ \E h \in Handlers : Refresh(h)
    \/ \E h \in Handlers : Query(h)
    \/ \E h \in Handlers : Release(h)
    \/ \E h \in Handlers : Reply(h)

Spec == Init /\ [][Next]_vars

(***************************************************************************)
(* Vocabulary of the properties                                            *)
(***************************************************************************)
IsCreate(h) == h.req.op = "create"
IsGet(h) == h.req.op = "get"
\* the handler has returned or raised: its response is set
Answered(h) == h.pc = "release"
\* the catalog answered 200 with the product
CatalogOk(h) == h.upstream.kind = "response" /\ h.upstream.status = 200
\* the catalog answered with a status outside 2xx
CatalogNonSuccess(h) ==
    h.upstream.kind = "response" /\ ~(h.upstream.status \in 200..299)
Product(h) == CHOOSE b \in h.upstream.body : TRUE
InStock(h) == CatalogOk(h) /\ Product(h).stock >= h.req.quantity

Abs(n) == IF n < 0 THEN 0 - n ELSE n
\* |price * quantity| in thousandths, exactly
ExactMills(h) == BMulS(PriceMills(Product(h).price), Abs(h.req.quantity))
\* the decimal t (sign and hundredths) is price * quantity exactly
TotalIsExact(t, h) ==
    /\ BMulS(t.c, 10) = ExactMills(h)
    /\ t.c # << >> => t.s = (IF h.req.quantity < 0 THEN 1 ELSE 0)
TwoDecimalPrice(h) == Product(h).price.mills % 10 = 0
\* |price * quantity| < 10^8: the total fits the Numeric(10,2) column
TotalInRange(h) == BLess(ExactMills(h), BPow10(NumericPrecision + 1))

\* the response is a success carrying an order of the request's user,
\* product and quantity, PENDING, with a total that is price * quantity
ReturnsExactOrder(h) ==
    /\ h.resp.code = 200
    /\ \E o \in h.resp.body :
          /\ o.user_id = h.req.user_id
          /\ o.product_id = h.req.product_id
          /\ o.quantity = h.req.quantity
          /\ o.status = "PENDING"
          /\ DOMAIN o.total = {"s", "c"}
          /\ TotalIsExact(o.total, h)

\* handler h takes a step to g, or leaves
Moves(h, g) == h # g /\ inflight' = (inflight (-) One(h)) (+) One(g)
Exits(h) == inflight' = inflight (-) One(h)
\* no row is written: the table and the open transactions stay as they are
NothingWritten == orders' = orders /\ txRows' = txRows /\ nextId' = nextId

Rejected400(h, detail) ==
    /\ h.resp = HttpError(400, detail)
    /\ h.db_order = {} /\ h.sess.new = {} /\ h.sess.uncommitted = {}

\* C2: a create_order whose catalog call returned a non-success status
\* fails with 400 "product not found", has built and added no Order, and
\* none of its steps, up to the end of the request, writes a row.
C2_InvalidProduct ==
    /\ [](\A h \in Handlers :
            (IsCreate(h) /\ Answered(h) /\ CatalogNonSuccess(h))
                => Rejected400(h, "product not found"))
    /\ [][\A h \in Handlers :
            /\ \A g \in BagToSet(inflight') :
                 (Moves(h, g) /\ IsCreate(g) /\ CatalogNonSuccess(g)) => NothingWritten
            /\ (Exits(h) /\ IsCreate(h) /\ CatalogNonSuccess(h)) => NothingWritten]_vars

C2_Witness ==
    \E h \in Handlers :
        /\ IsCreate(h) /\ Answered(h) /\ CatalogNonSuccess(h)
        /\ h.upstream.status = 404
        /\ h.resp = HttpError(400, "product not found")

(***************************************************************************)
(* C3  create_order with stock < quantity                                  *)
(***************************************************************************)
OutOfStock(h) == CatalogOk(h) /\ Product(h).stock < h.req.quantity
\* the handler holds a new or inserted Order
Writing(h) == h.pc \in {"flush", "commit"}

C4_RoundTrip ==
    /\ \A o \in created : o \in orders
    /\ \A h \in Handlers :
          (IsGet(h) /\ Answered(h)) => \A o \in h.req.known : h.resp = HttpOk(o)

C4_Witness ==
    \E h \in Handlers :
        /\ IsGet(h) /\ Answered(h) /\ h.req.known # {}
        /\ h.resp.code = 200
        /\ Cardinality(orders) = 2

(***************************************************************************)
(* C5  upstream failures                                                   *)
(***************************************************************************)
InvalidProduct(h) == h.resp = HttpError(400, "product not found")
CatalogRaised(h) == h.upstream.kind \in {"timeout", "neterr"}

\* C5 as stated: a catalog call that ends in a 404, a 500, a timeout or a
\* network error makes create_order fail with 400 "product not found".
C5_AsStated ==
    \A h \in Handlers :
        (IsCreate(h) /\ Answered(h) /\ (CatalogNonSuccess(h) \/ CatalogRaised(h)))
            => InvalidProduct(h)

\* C5 amended: a catalog call that ends in a status other than 200 (a 404,
\* a 500) makes create_order fail with 400 "product not found"; one that
\* ends in a timeout or a network error makes it fail with a server error,
\* the client's exception being caught nowhere.
C5_UpstreamFailures ==
    \A h \in Handlers :
        (IsCreate(h) /\ Answered(h)) =>
            /\ (h.upstream.kind = "response" /\ h.upstream.status # 200)
                  => InvalidProduct(h)
            /\ CatalogRaised(h) => h.resp = ServerError

C5_Witness ==
    /\ \E h \in Handlers :
          /\ IsCreate(h) /\ Answered(h) /\ InvalidProduct(h)
          /\ h.upstream.kind = "response" /\ h.upstream.status = 500
    /\ \E h \in Handlers :
          /\ IsCreate(h) /\ Answered(h) /\ h.resp = ServerError
          /\ h.upstream.kind = "timeout"

(***************************************************************************)
(* C6  the session of a request                                            *)
(***************************************************************************)
HoldsSession(h) == h.sess.state = "open"
OpenSessions ==
    BagCardinality([h \in {g \in Handlers : HoldsSession(g)} |-> inflight[h]])

\* C6: the sessions open are those of the requests in flight, the rows of
\* open transactions are those their sessions hold, and a handler that has
\* returned or raised holds no unflushed or uncommitted write: once a
\* request has ended, on whatever path, its session is closed and nothing
\* of it is pending.
C6_SessionReleased ==
    /\ pool = OpenSessions
    /\ txRows = UNION {h.sess.uncommitted : h \in Handlers}
    /\ \A h \in Handlers :
          /\ (IsCreate(h) \/ IsGet(h)) => HoldsSession(h)
          /\ Answered(h) => h.sess.new = {} /\ h.sess.uncommitted = {}

\* every request has ended, an order having been created, and no session
\* is open and no row pending
C6_Witness ==
    /\ inflight = EmptyBag
    /\ pool = 0
    /\ txRows = {}
    /\ orders # {}

(***************************************************************************)
(* C7  get_order                                                           *)
(***************************************************************************)
Stored(id) == {o \in orders : o.id = id}

\* C7: get_order answers 404 "not found" when no row has the id and 200
\* with the row when one has; it writes nothing; and any two answers that
\* found the same id are the same record, a row of the table.
C7_GetOrder ==
    /\ [](\A h \in Handlers :
            (IsGet(h) /\ Answered(h) /\ h.resp.code = 200) =>
                /\ h.resp.body \subseteq orders
                /\ \A g \in Handlers :
                      (IsGet(g) /\ Answered(g) /\ g.resp.code = 200
                          /\ g.req.order_id = h.req.order_id) => g.resp = h.resp)
    /\ [][\A h \in Handlers :
            /\ \A g \in BagToSet(inflight') :
                 (Moves(h, g) /\ IsGet(h)) =>
                    /\ NothingWritten
                    /\ Stored(h.req.order_id) = {}
                          => g.resp = HttpError(404, "not found")
                    /\ \A o \in Stored(h.req.order_id) : g.resp = HttpOk(o)
            /\ (Exits(h) /\ IsGet(h)) => NothingWritten]_vars

C7_Witness ==
    /\ \E h \in Handlers :
          IsGet(h) /\ Answered(h) /\ h.resp = HttpError(404, "not found")
    /\ \E h \in Handlers :
          IsGet(h) /\ Answered(h) /\ h.resp.code = 200

(***************************************************************************)
(* C8  the stock check                                                     *)
(***************************************************************************)
\* C8: no step changes the catalog, and every handler past the stock check
\* was checked against the stock the catalog still reports.
C8_StockReadOnly ==
    /\ [][catalog' = catalog]_vars
    /\ [](\A h \in Handlers :
            (IsCreate(h) /\ h.db_order # {}) =>
                h.upstream.body = {catalog[h.req.product_id]})

\* two requests in flight at once, each for no more of the product than is
\* in stock, together for more, and both orders are rows of the table
C8_Witness ==
    \E h, g \in Handlers :
        /\ h # g
        /\ IsCreate(h) /\ IsCreate(g)
        /\ h.req.product_id = g.req.product_id
        /\ h.pc = "refresh" /\ g.pc = "refresh"
        /\ h.req.quantity > 0 /\ g.req.quantity > 0
        /\ h.req.quantity <= catalog[h.req.product_id].stock
        /\ g.req.quantity <= catalog[g.req.product_id].stock
        /\ h.req.quantity + g.req.quantity > catalog[h.req.product_id].stock
        /\ \E o1, o2 \in orders :
              /\ o1.id # o2.id
              /\ {o1.id} = {o.id : o \in h.db_order}
              /\ {o2.id} = {o.id : o \in g.db_order}

(***************************************************************************)
(* C9  the orders table                                                    *)
(***************************************************************************)
Rows == orders \cup txRows

\* C9: no two rows share an id and every row is PENDING; a step removes or
\* changes no row and adds at most one; an INSERT takes an id greater than
\* every id given out before; the order create_order returns is the one
\* row of its id, and no two handlers hold an Order of the same id.
C9_AppendOnly ==
    /\ [](/\ \A o1, o2 \in Rows : o1.id = o2.id => o1 = o2
          /\ \A o \in Rows : o.status = "PENDING" /\ o.id >= 1 /\ o.id < nextId
          /\ \A h \in Handlers :
                (IsCreate(h) /\ Answered(h) /\ h.resp.code = 200) =>
                    \E o \in h.resp.body : Stored(o.id) = {o}
          /\ \A h, g \in Handlers : \A o \in h.db_order :
                o.id # 0 =>
                    /\ inflight[h] = 1
                    /\ g # h => \A x \in g.db_order : x.id # o.id)
    /\ [][/\ orders \subseteq orders'
          /\ Cardinality(orders' \ orders) <= 1
          /\ Cardinality(txRows' \ txRows) <= 1
          /\ orders' \ orders \subseteq txRows
          /\ nextId' >= nextId
          /\ \A o \in txRows' \ txRows : o.id >= nextId /\ o.id < nextId']_vars

C9_Witness ==
    /\ Cardinality(orders) = 2
    /\ \E h \in Handlers : IsCreate(h) /\ Answered(h) /\ h.resp.code = 200

(***************************************************************************)
(* C10  quantity <= 0                                                      *)
(***************************************************************************)
NonPositive(t) == t.c = << >> \/ t.s = 1

\* the response is a success carrying a row of the table with the
\* request's quantity and a total <= 0
PersistsNonPositive(h) ==
    /\ h.resp.code = 200
    /\ \E o \in h.resp.body :
          /\ o \in orders
          /\ o.quantity = h.req.quantity
          /\ NonPositive(o.total)
          /\ TwoDecimalPrice(h) => TotalIsExact(o.total, h)

=============================================================================
